---- MODULE Spec2Model ----
(***************************************************************************)
(* asgilook: the response cache middleware (asgilook/cache.py), the image  *)
(* resource (asgilook/images.py) and the image store (asgilook/store.py),  *)
(* run by an ASGI application that calls process_request, the responder    *)
(* and process_response for every request.  Each action is the code        *)
(* between two suspension points (await) of one request.                   *)
(***************************************************************************)
EXTENDS Integers, Sequences, FiniteSets, TLC

\* ------------------------------------------------------------------ bounds
MaxReq == 3         \* requests issued over a run
MaxClock == 1       \* the latest reading of the wall clock (half seconds)

\* ------------------------------------------------------- program constants
PREFIX == "asgilook:"
INVALIDATE_ON == {"DELETE", "POST", "PUT"}
CACHE_HEADER == "X-ASGILook-Cache"
TTL == 3600

\* --------------------------------------------------------------- the input
Reqs == 1..MaxReq
Methods == {"GET", "OPTIONS", "POST", "PUT", "DELETE"}
Paths == {"/images", "/other"}
\* the requests issued: every method on the route, two on a path without one
Targets == {<<m, "/images">> : m \in Methods}
           \cup {<<"GET", "/other">>, <<"DELETE", "/other">>}
\* an uploaded body: a well-formed image, an image whose header parses but
\* whose pixel data is cut short, or bytes that are no image at all
Bodies == { [kind |-> "image", size |-> <<10, 10>>],
            [kind |-> "truncated", size |-> <<10, 10>>],
            [kind |-> "garbage", size |-> <<0, 0>>] }
NoBody == [kind |-> "none", size |-> <<0, 0>>]
\* ------------------------------------------------------------------ values
None == <<>>                        \* Python None / b'' / no entry
NoExc == [exc |-> "none", errno |-> "none"]
NoEntry == [present |-> FALSE, val |-> None, expire |-> 0]
NoFile == [exists |-> FALSE, content |-> None]

VARIABLES
    rq,         \* per request: position, req/resp fields, history fields
    redis,      \* RedisCache.redis: 0 is None, n > 0 the n-th pool created
    pools,      \* pools created by config.create_redis_pool so far
    cache,      \* the backend's contents, by key
    images,     \* Store._images, in insertion order
    files,      \* the files under storage_path, by image id
    now,        \* datetime.utcnow(), in half seconds
    inval,      \* history, by key: deleted and not looked up since
    stale,      \* history, by key: the entry's body predates a completed mutation
    lastDone    \* history: the request answered last; 0 none yet, -1 an
                \* entry expired since

vars == <<rq, redis, pools, cache, images, files, now, inval, stale, lastDone>>

\* f'{self.PREFIX}/{req.path}'
Key(path) == PREFIX \o "/" \o path
Keys == {Key(p) : p \in Paths}

\* media handler: the JSON document of a media object
Serialize(media) == <<"json", media>>

\* datetime.isoformat(): seconds, and the fraction only when it is not zero
IsoFormat(t) == IF t % 2 = 0 THEN <<t \div 2>> ELSE <<t \div 2, 5>>

\* str < str: lexicographic, a proper prefix is smaller
RECURSIVE StrLess(_, _)
StrLess(a, b) ==
    IF b = <<>> THEN FALSE
    ELSE IF a = <<>> THEN TRUE
    ELSE IF Head(a) # Head(b) THEN Head(a) < Head(b)
    ELSE StrLess(Tail(a), Tail(b))

\* sorted(): stable insertion of e into a list sorted by 'modified'
RECURSIVE InsertSorted(_, _)
InsertSorted(s, e) ==
    IF s = <<>> THEN <<e>>
    ELSE IF StrLess(e.modified, Head(s).modified) THEN <<e>> \o s
    ELSE <<Head(s)>> \o InsertSorted(Tail(s), e)

RECURSIVE Sorted(_)
Sorted(s) ==
    IF s = <<>> THEN <<>>
    ELSE InsertSorted(Sorted(SubSeq(s, 1, Len(s) - 1)), s[Len(s)])

\* Store.list_images
list_images(imgs) == Sorted(imgs)

\* a store that rebuilds the map from the entry at hand
SetItemReplacingMap(imgs, stored) == <<stored>>

\* self._images[image_id] = stored: a dict keeps a key's first position
SetItem(imgs, stored) ==
    IF \E i \in 1..Len(imgs) : imgs[i].id = stored.id
    THEN [i \in 1..Len(imgs) |->
            IF imgs[i].id = stored.id THEN stored ELSE imgs[i]]
    ELSE Append(imgs, stored)

\* a generator that hands out one identifier again and again
Uuid4Fixed(r) == 1

\* str(uuid.uuid4()): an identifier no other upload has
Uuid4(r) == r

\* a loader that accepts any bytes
LoadNeverFails(body) == FALSE

\* Store._load_from_bytes: PIL.Image.open reads the header only
LoadFails(body) == body.kind = "garbage"
\* Store._convert: image.convert loads the pixel data
ConvertFails(body) == body.kind = "truncated"
Converted(body) == [format |-> "JPEG", mode |-> "RGB", size |-> body.size]
\* what PIL raises: an OSError that carries no errno
DecodeError == [exc |-> "OSError", errno |-> "none"]
\* what open()/write() raise: an OSError with its errno
PersistError == [exc |-> "OSError", errno |-> "ENOSPC"]

NewReq == [pc |-> "idle", method |-> "GET", path |-> "/images", stream |-> NoBody,
           image_id |-> 0, cached |-> FALSE, complete |-> FALSE, data |-> None,
           header |-> "", status |-> 0, req_succeeded |-> FALSE, exc |-> NoExc,
           found |-> None, ran |-> FALSE, op |-> "none", fresh |-> FALSE,
           premut |-> FALSE, servedStale |-> FALSE, afterInval |-> FALSE,
           failedAt |-> "", solo |-> FALSE, pred |-> -1, overlapped |-> FALSE,
           looked |-> FALSE, guests |-> {}]

Init ==
    /\ rq = [r \in Reqs |-> NewReq]
    /\ redis = 0
    /\ pools = 0
    /\ cache = [k \in Keys |-> NoEntry]
    /\ images = <<>>
    /\ files = [i \in Reqs |-> NoFile]
    /\ now = 0
    /\ inval = [k \in Keys |-> FALSE]
    /\ stale = [k \in Keys |-> FALSE]
    /\ lastDone = 0

InFlight(q) == q.pc \notin {"idle", "done"}

\* the request awaits its decode or its convert
InCodec(q) == q.pc \in {"load", "convert"}

\* a save that calls the codec on the event loop's own thread
HoldsLoopInCodec(q) == InCodec(q)

\* Store.save, lines 30-32: loop.run_in_executor runs the codec on a worker
\* thread and no lock is taken, so a request that awaits holds nothing
HoldsLoop(q) == FALSE

\* the event loop can run the next step of request r
LoopFree(r) == \A y \in Reqs \ {r} : ~HoldsLoop(rq[y])

\* --------------------------------------------------------- request arrival
\* solo: no other request is in flight while this one is; pred: the request
\* answered just before this one arrived; guests: the requests that arrived
\* during the codec step this one awaits
Arrive(r) ==
    /\ rq[r].pc = "idle"
    /\ LoopFree(r)
    /\ IF r = 1 THEN TRUE ELSE rq[r - 1].pc # "idle"
    /\ \E t \in Targets :
        \E b \in (IF t[1] = "POST" THEN Bodies ELSE {NoBody}) :
          rq' = [q \in Reqs |->
                  IF q = r
                  THEN [rq[r] EXCEPT !.pc = "process_request", !.method = t[1],
                                     !.path = t[2], !.stream = b,
                                     !.solo = \A x \in Reqs : ~InFlight(rq[x]),
                                     !.pred = lastDone]
                  ELSE IF InFlight(rq[q])
                  THEN [rq[q] EXCEPT !.solo = FALSE,
                                     !.guests = IF InCodec(rq[q]) THEN @ \cup {r}
                                                ELSE @]
                  ELSE rq[q]]
    /\ UNCHANGED <<redis, pools, cache, images, files, now, inval, stale, lastDone>>

\* ------------------------------------------- RedisCache.process_request
\* a test that knows POST only
IsInvalidatingPostOnly(method) == method = "POST"

\* line 21 and line 43
IsInvalidating(method) == method \in INVALIDATE_ON

\* lines 19-25, up to the first await
ProcessRequestBegin(r) ==
    /\ rq[r].pc = "process_request"
    /\ LoopFree(r)
    /\ rq' = [rq EXCEPT ![r] =
                [@ EXCEPT !.cached = FALSE,
                          !.pc = IF IsInvalidating(rq[r].method) THEN "responder"
                                 ELSE IF redis = 0 THEN "create_pool"
                                 ELSE "redis_get"]]
    /\ UNCHANGED <<redis, pools, cache, images, files, now, inval, stale, lastDone>>

\* create_pool: the awaited create_redis_pool returns and is assigned
create_pool(r) ==
    /\ rq[r].pc = "create_pool"
    /\ LoopFree(r)
    /\ pools' = pools + 1
    /\ redis' = pools + 1
    /\ rq' = [rq EXCEPT ![r] = [@ EXCEPT !.pc = "redis_get"]]
    /\ UNCHANGED <<cache, images, files, now, inval, stale, lastDone>>

\* a hit that does not mark the response complete
HitResponseNotComplete(q, data) ==
    [q EXCEPT !.cached = TRUE, !.data = data, !.header = "Hit"]

\* lines 30-33: the response of a hit
HitResponse(q, data) ==
    [q EXCEPT !.complete = TRUE, !.cached = TRUE, !.data = data, !.header = "Hit"]
\* line 35
MissResponse(q) == [q EXCEPT !.header = "Miss"]

\* lines 27-35: redis.get answers
ProcessRequestGet(r) ==
    /\ rq[r].pc = "redis_get"
    /\ LoopFree(r)
    /\ redis # 0
    /\ LET key == Key(rq[r].path)
           entry == cache[key]
           isget == rq[r].method = "GET"
           q == [rq[r] EXCEPT !.found = entry.val, !.looked = TRUE,
                              !.afterInval = isget /\ inval[key],
                              !.servedStale = entry.present /\ stale[key]]
       IN /\ rq' = [rq EXCEPT ![r] =
                    IF entry.present
                    THEN LET h == HitResponse(q, entry.val)
                         IN [h EXCEPT !.pc = IF h.complete THEN "process_response"
                                             ELSE "responder",
                                      !.status = IF h.complete THEN 200 ELSE 0,
                                      !.req_succeeded = h.complete]
                    ELSE [MissResponse(q) EXCEPT !.pc = "responder"]]
          /\ inval' = IF isget THEN [inval EXCEPT ![key] = FALSE] ELSE inval
    /\ UNCHANGED <<redis, pools, cache, images, files, now, stale, lastDone>>

\* -------------------------------------------------------------- responders
\* app.add_route('/images', images): the one route, with on_get and on_post
Routed(method, path) == path = "/images" /\ method \in {"GET", "POST", "OPTIONS"}

\* no route (404) or no responder for the method (405): the request fails
RouteError(r) ==
    /\ rq[r].pc = "responder"
    /\ LoopFree(r)
    /\ ~Routed(rq[r].method, rq[r].path)
    /\ rq' = [rq EXCEPT ![r] =
                [@ EXCEPT !.pc = "process_response", !.req_succeeded = FALSE,
                          !.status = IF rq[r].path = "/images" THEN 405 ELSE 404]]
    /\ UNCHANGED <<redis, pools, cache, images, files, now, inval, stale, lastDone>>

\* the responder the route gets for OPTIONS: an answer without a body
OnOptions(r) ==
    /\ rq[r].pc = "responder"
    /\ LoopFree(r)
    /\ rq[r].path = "/images" /\ rq[r].method = "OPTIONS"
    /\ rq' = [rq EXCEPT ![r] =
                [@ EXCEPT !.pc = "process_response", !.req_succeeded = TRUE,
                          !.status = 200, !.data = None, !.ran = TRUE]]
    /\ UNCHANGED <<redis, pools, cache, images, files, now, inval, stale, lastDone>>

\* Images.on_get: resp.media = self.store.list_images()
on_get(r) ==
    /\ rq[r].pc = "responder"
    /\ LoopFree(r)
    /\ rq[r].path = "/images" /\ rq[r].method = "GET"
    /\ rq' = [rq EXCEPT ![r] =
                [@ EXCEPT !.pc = "process_response", !.req_succeeded = TRUE,
                          !.status = 200, !.data = Serialize(list_images(images)),
                          !.ran = TRUE, !.premut = FALSE]]
    /\ UNCHANGED <<redis, pools, cache, images, files, now, inval, stale, lastDone>>

\* the request is inside Store.save
InSave(q) == q.pc \in {"load", "convert", "open", "write", "store"}

\* Images.on_post, lines 15-18: the body is read, the id drawn, save called
\* (overlapped: another save call was under way during this one)
on_post(r) ==
    /\ rq[r].pc = "responder"
    /\ LoopFree(r)
    /\ rq[r].path = "/images" /\ rq[r].method = "POST"
    /\ rq' = [x \in Reqs |->
                IF x = r
                THEN [rq[r] EXCEPT !.pc = "load", !.image_id = Uuid4(r),
                                   !.status = 201, !.ran = TRUE,
                                   !.overlapped = \E y \in Reqs : InSave(rq[y])]
                ELSE IF InSave(rq[x]) THEN [rq[x] EXCEPT !.overlapped = TRUE]
                ELSE rq[x]]
    /\ UNCHANGED <<redis, pools, cache, images, files, now, inval, stale, lastDone>>

\* ------------------------------------------------------------- Store.save
\* an exception leaves save and on_post: the request did not succeed
Raise(q, exc, at) ==
    [q EXCEPT !.pc = "process_response", !.req_succeeded = FALSE, !.status = 500,
              !.exc = exc, !.failedAt = at]

\* line 31
SaveLoad(r) ==
    /\ rq[r].pc = "load"
    /\ LoopFree(r)
    /\ rq' = [rq EXCEPT ![r] =
                IF LoadFails(rq[r].stream)
                THEN Raise([@ EXCEPT !.guests = {}], DecodeError, "load")
                ELSE [@ EXCEPT !.pc = "convert", !.guests = {}]]
    /\ UNCHANGED <<redis, pools, cache, images, files, now, inval, stale, lastDone>>

\* line 32
SaveConvert(r) ==
    /\ rq[r].pc = "convert"
    /\ LoopFree(r)
    /\ rq' = [rq EXCEPT ![r] =
                IF ConvertFails(rq[r].stream)
                THEN Raise([@ EXCEPT !.guests = {}], DecodeError, "convert")
                ELSE [@ EXCEPT !.pc = "open", !.guests = {}]]
    /\ UNCHANGED <<redis, pools, cache, images, files, now, inval, stale, lastDone>>

\* a save that swallows the error of a file operation
AfterFileOpSwallowed(ok, next) == next

\* what follows an awaited file operation: the next statement, or the
\* exception leaves save
AfterFileOp(ok, next) == IF ok THEN next ELSE "raise"

\* line 35: aiofiles.open(path, 'wb') creates or empties the file, or fails
SaveOpen(r) ==
    /\ rq[r].pc = "open"
    /\ LoopFree(r)
    /\ \E ok \in BOOLEAN :
        LET q == [rq[r] EXCEPT !.failedAt = IF ok THEN "" ELSE "open"]
            to == AfterFileOp(ok, "write")
        IN /\ rq' = [rq EXCEPT ![r] =
                      IF to = "raise" THEN Raise(q, PersistError, "open")
                      ELSE [q EXCEPT !.pc = to]]
           /\ files' = IF ok THEN [files EXCEPT ![rq[r].image_id] =
                                     [exists |-> TRUE, content |-> None]]
                       ELSE files
    /\ UNCHANGED <<redis, pools, cache, images, now, inval, stale, lastDone>>

\* line 36: output.write(converted) writes the bytes, or fails
SaveWrite(r) ==
    /\ rq[r].pc = "write"
    /\ LoopFree(r)
    /\ \E ok \in BOOLEAN :
        LET q == [rq[r] EXCEPT !.failedAt = IF ok THEN "" ELSE "write"]
            to == AfterFileOp(ok, "store")
        IN /\ rq' = [rq EXCEPT ![r] =
                      IF to = "raise" THEN Raise(q, PersistError, "write")
                      ELSE [q EXCEPT !.pc = to]]
           /\ files' = IF ok THEN [files EXCEPT ![rq[r].image_id] =
                                     [exists |-> TRUE,
                                      content |-> Converted(rq[r].stream)]]
                       ELSE files
    /\ UNCHANGED <<redis, pools, cache, images, now, inval, stale, lastDone>>

\* lines 38-42
Stored(image_id, body, t) ==
    [id |-> image_id, modified |-> IsoFormat(t), size |-> body.size]

\* the file is closed; lines 38-44, and on_post lines 19-20.  The clock,
\* read here only, has advanced since its last reading or has not
SaveStore(r) ==
    /\ rq[r].pc = "store"
    /\ LoopFree(r)
    /\ \E t \in {x \in {now, now + 1} : x <= MaxClock} :
       LET stored == Stored(rq[r].image_id, rq[r].stream, t)
       IN /\ images' = SetItem(images, stored)
          /\ now' = t
          /\ rq' = [rq EXCEPT ![r] =
                      [@ EXCEPT !.pc = "process_response", !.req_succeeded = TRUE,
                                !.data = Serialize(stored)]]
    /\ UNCHANGED <<redis, pools, cache, files, inval, stale, lastDone>>

\* ------------------------------------------ RedisCache.process_response
\* a post-hook that does not look at req_succeeded
SkipResponseNever(req_succeeded) == FALSE
\* a post-hook that stores only what was served from the cache
ShouldStoreCachedOnly(cached, data) == cached /\ data # None

\* a post-hook that stores any body, served from the cache or not
ShouldStoreAnyBody(cached, data) == data # None

\* line 38
SkipResponse(req_succeeded) == ~req_succeeded
\* line 45
ShouldStore(cached, data) == ~cached /\ data # None

\* lines 38-46; the response is then sent
ProcessResponse(r) ==
    /\ rq[r].pc = "process_response"
    /\ LoopFree(r)
    /\ LET q == rq[r]
           key == Key(q.path)
           op == IF SkipResponse(q.req_succeeded) THEN "none"
                 ELSE IF IsInvalidating(q.method)
                      THEN (IF redis = 0 THEN "raise" ELSE "delete")
                 ELSE IF ShouldStore(q.cached, q.data) THEN "set"
                 ELSE "none"
           fin == [q EXCEPT !.pc = "done", !.op = op,
                            !.status = IF op = "raise" THEN 500 ELSE @,
                            !.exc = IF op = "raise"
                                    THEN [exc |-> "AttributeError", errno |-> "none"]
                                    ELSE @,
                            !.fresh = op = "set"
                                      /\ q.data = Serialize(list_images(images)),
                            !.pc = "done"]
       IN /\ cache' = CASE op = "delete" -> [cache EXCEPT ![key] = NoEntry]
                        [] op = "set" -> [cache EXCEPT ![key] =
                                            [present |-> TRUE, val |-> q.data,
                                             expire |-> TTL]]
                        [] OTHER -> cache
          /\ inval' = IF op = "delete" THEN [inval EXCEPT ![key] = TRUE] ELSE inval
          /\ stale' = CASE op = "delete" -> [stale EXCEPT ![key] = FALSE]
                        [] op = "set" -> [stale EXCEPT ![key] = q.premut]
                        [] OTHER -> stale
          /\ rq' = [x \in Reqs |->
                      IF x = r THEN fin
                      ELSE IF op = "delete" /\ rq[x].path = q.path
                              /\ rq[x].pc = "process_response" /\ rq[x].ran
                      THEN [rq[x] EXCEPT !.premut = TRUE]
                      ELSE rq[x]]
          /\ lastDone' = r
    /\ UNCHANGED <<redis, pools, images, files, now>>

\* ------------------------------------------------------------ environment
\* the backend evicts an entry whose time to live has run out
Expire(k) ==
    /\ cache[k].present
    /\ cache' = [cache EXCEPT ![k] = NoEntry]
    /\ stale' = [stale EXCEPT ![k] = FALSE]
    /\ lastDone' = -1
    /\ rq' = [x \in Reqs |-> IF InFlight(rq[x]) THEN [rq[x] EXCEPT !.pred = -1]
                              ELSE rq[x]]
    /\ UNCHANGED <<redis, pools, images, files, now, inval>>

Next ==
    \/ \E r \in Reqs : Arrive(r)
    \/ \E r \in Reqs : ProcessRequestBegin(r)
    \/ \E r \in Reqs : create_pool(r)
    \/ \E r \in Reqs : ProcessRequestGet(r)
    \/ \E r \in Reqs : RouteError(r)
    \/ \E r \in Reqs : OnOptions(r)
    \/ \E r \in Reqs : on_get(r)
    \/ \E r \in Reqs : on_post(r)
    \/ \E r \in Reqs : SaveLoad(r)
    \/ \E r \in Reqs : SaveConvert(r)
    \/ \E r \in Reqs : SaveOpen(r)
    \/ \E r \in Reqs : SaveWrite(r)
    \/ \E r \in Reqs : SaveStore(r)
    \/ \E r \in Reqs : ProcessResponse(r)
    \/ \E k \in Keys : Expire(k)

Spec == Init /\ [][Next]_vars

\* the next step of a request in flight
Step(r) ==
    \/ ProcessRequestBegin(r) \/ create_pool(r) \/ ProcessRequestGet(r)
    \/ RouteError(r) \/ OnOptions(r) \/ on_get(r) \/ on_post(r)
    \/ SaveLoad(r) \/ SaveConvert(r) \/ SaveOpen(r) \/ SaveWrite(r)
    \/ SaveStore(r) \/ ProcessResponse(r)

\* ------------------------------------------------------------- properties
LookedUp(q) == q.pc \in {"responder", "process_response", "done"}
                /\ ~IsInvalidating(q.method)
Answered(q) == q.pc = "done"
GoodGet(q) == Answered(q) /\ q.method = "GET" /\ q.status = 200
\* the uploads whose POST succeeded before request r arrived alone
UploadsBefore(r) ==
    {rq[x].image_id : x \in {y \in 1..(r - 1) : rq[y].method = "POST"
                                                /\ rq[y].req_succeeded}}
Ids(list) == {list[i].id : i \in 1..Len(list)}
Ascending(list) ==
    \A i \in 1..(Len(list) - 1) : ~StrLess(list[i + 1].modified, list[i].modified)
HasEntry(imgs, id) == \E i \in 1..Len(imgs) : imgs[i].id = id

\* C1: once a successful POST, PUT or DELETE on a path has completed, the
\* next GET on that path yields Miss, no GET is served a body computed before
\* the mutation, and no such body is left in the cache.
C1_NoStaleReadAfterMutation ==
    /\ \A r \in Reqs :
        (rq[r].method = "GET" /\ LookedUp(rq[r])) =>
            /\ rq[r].afterInval => rq[r].header = "Miss"
            /\ rq[r].header = "Hit" => ~rq[r].servedStale
    /\ \A k \in Keys : cache[k].present => ~stale[k]

\* C2: the first successful GET after startup or after an invalidation of its
\* path yields Miss, and the GET that immediately follows a successful Miss on
\* the same path (nothing in between, no expiry) yields Hit with the same body.
C2_MissThenHit ==
    \A r \in Reqs :
        (GoodGet(rq[r]) /\ rq[r].solo) =>
            /\ rq[r].pred = 0 => rq[r].header = "Miss"
            /\ rq[r].pred > 0 =>
                LET p == rq[rq[r].pred]
                IN /\ (p.op = "delete" /\ p.path = rq[r].path)
                        => rq[r].header = "Miss"
                   /\ (GoodGet(p) /\ p.path = rq[r].path /\ p.header = "Miss")
                        => (rq[r].header = "Hit" /\ rq[r].data = p.data)

C2_Witness ==
    \E r \in Reqs :
        /\ GoodGet(rq[r]) /\ rq[r].solo /\ rq[r].pred > 0
        /\ LET p == rq[rq[r].pred]
           IN /\ GoodGet(p) /\ p.path = rq[r].path /\ p.header = "Miss"
              /\ rq[r].header = "Hit" /\ rq[r].data = p.data
              /\ p.data # Serialize(<<>>)

\* C3: after any sequence of successful POST /images, a GET /images lists
\* exactly the uploaded images, one entry per upload, by modified ascending.
C3_ListsExactlyTheUploads ==
    \A r \in Reqs :
        (GoodGet(rq[r]) /\ rq[r].path = "/images" /\ rq[r].solo) =>
            /\ rq[r].data[1] = "json"
            /\ LET list == rq[r].data[2]
               IN /\ Ids(list) = UploadsBefore(r)
                  /\ Len(list) = Cardinality(UploadsBefore(r))
                  /\ Ascending(list)

\* C4: the cache backend is initialised at most once, also when several
\* requests run their pre-hook while the handle is unset.
C4_InitialisedAtMostOnce == pools <= 1

\* C5: a body the post-hook writes to the cache is, when written, the body a
\* fresh read of the path would produce from the catalog.
C5_WrittenEntryIsFresh == \A r \in Reqs : rq[r].op = "set" => rq[r].fresh

\* C6: the post-hook of a request that did not succeed performs no backend
\* operation: the cache is left as it was.
C6_FailedRequestLeavesCache ==
    [][\A r \in Reqs :
        (rq[r].pc = "process_response" /\ ~rq[r].req_succeeded
            /\ rq'[r].pc = "done")
        => (cache' = cache /\ rq'[r].op = "none")]_vars

C6_Witness ==
    \E r \in Reqs :
        /\ Answered(rq[r]) /\ ~rq[r].req_succeeded /\ rq[r].method = "POST"
        /\ rq[r].failedAt = "load"
        /\ cache[Key(rq[r].path)].present

\* C7: concurrent saves with distinct ids that succeed lose no entry and
\* duplicate none: list_images returns one entry per save.
Saved == {r \in Reqs : rq[r].method = "POST" /\ rq[r].req_succeeded}
C7_NoEntryLost ==
    /\ Len(list_images(images)) = Cardinality(Saved)
    /\ Ids(list_images(images)) = {rq[r].image_id : r \in Saved}

C7_Witness ==
    /\ Cardinality(Saved) >= 2
    /\ \A r \in Saved : rq[r].overlapped
    /\ Len(list_images(images)) = Cardinality(Saved)

\* C8: a save of bytes that are no valid image fails with a decode error and
\* creates neither a catalog entry nor a file.
C8_InvalidImageRejected ==
    \A r \in Reqs :
        (rq[r].method = "POST" /\ rq[r].path = "/images"
            /\ rq[r].stream.kind # "image"
            /\ rq[r].pc \notin {"idle", "process_request", "responder"}) =>
            /\ rq[r].pc \in {"load", "convert", "process_response", "done"}
            /\ ~HasEntry(images, rq[r].image_id)
            /\ ~files[rq[r].image_id].exists
            /\ rq[r].pc \in {"process_response", "done"} =>
                (~rq[r].req_succeeded /\ rq[r].exc = DecodeError
                    /\ rq[r].failedAt \in {"load", "convert"})

C8_Witness ==
    \E r \in Reqs :
        /\ Answered(rq[r]) /\ rq[r].stream.kind = "garbage"
        /\ rq[r].failedAt = "load" /\ rq[r].exc = DecodeError
        /\ images # <<>>

C10_HitShortCircuits ==
    \A r \in Reqs :
        rq[r].found # None =>
            /\ rq[r].complete /\ rq[r].cached
            /\ rq[r].data = rq[r].found
            /\ rq[r].header = "Hit"
            /\ ~rq[r].ran
            /\ rq[r].pc \in {"process_response", "done"}

C10_Witness ==
    \E r \in Reqs :
        /\ Answered(rq[r]) /\ rq[r].found # None /\ rq[r].found # Serialize(<<>>)
        /\ rq[r].data = rq[r].found /\ rq[r].header = "Hit"

\* C11: the post-hook writes only on a miss: a set is done only for a
\* succeeded request whose method does not invalidate, whose cached field is
\* false and whose body is not empty; cached is true only on a hit of the
\* request itself, and a response served from the cache is never written back.
C11_WriteOnMissOnly ==
    \A r \in Reqs :
        /\ rq[r].op = "set" =>
            /\ rq[r].req_succeeded
            /\ rq[r].method \notin INVALIDATE_ON
            /\ ~rq[r].cached
            /\ rq[r].data # None
            /\ rq[r].header = "Miss"
        /\ rq[r].cached => (rq[r].found # None /\ rq[r].header = "Hit")
        /\ rq[r].header = "Hit" => rq[r].op # "set"

C11_Witness ==
    \E r, x \in Reqs :
        /\ Answered(rq[r]) /\ rq[r].op = "set"
        /\ Answered(rq[x]) /\ rq[x].header = "Hit" /\ rq[x].cached
        /\ rq[x].data = rq[r].data /\ rq[x].op = "none"
        /\ cache[Key(rq[x].path)].present

PreHookOver(q) == q.pc \notin {"idle", "process_request", "create_pool", "redis_get"}

\* C12: the pre-hook sets one cache header value, Hit or Miss, for a request
\* whose method does not invalidate; for DELETE, POST and PUT it looks nothing
\* up and sets no cache header.
C12_HeaderOnReadsOnly ==
    \A r \in Reqs :
        PreHookOver(rq[r]) =>
            IF rq[r].method \in INVALIDATE_ON
            THEN rq[r].header = "" /\ ~rq[r].looked /\ rq[r].found = None
            ELSE rq[r].header \in {"Hit", "Miss"} /\ rq[r].looked

C12_Witness ==
    \E r, x, y \in Reqs :
        /\ Answered(rq[r]) /\ rq[r].method = "DELETE" /\ rq[r].header = ""
        /\ Answered(rq[x]) /\ rq[x].header = "Miss"
        /\ Answered(rq[y]) /\ rq[y].header = "Hit"

\* C13: whenever the post-hook is to perform a backend delete or set, the
\* backend handle has been established, also when the first request is a
\* successful POST, PUT or DELETE.
C13_HandleSetBeforeBackendUse ==
    \A r \in Reqs :
        (rq[r].pc = "process_response" /\ rq[r].req_succeeded
            /\ (rq[r].method \in INVALIDATE_ON
                \/ (~rq[r].cached /\ rq[r].data # None)))
        => redis # 0

EntryOf(imgs, id) == CHOOSE e \in {imgs[i] : i \in 1..Len(imgs)} : e.id = id

\* C14: a catalog entry is created once, when its upload completes, and is
\* never changed or removed afterwards: whatever step follows, an id the
\* catalog maps keeps its entry, and a new id appears only as a save returns.
C14_EntryNeverChanges ==
    [][/\ \A id \in Ids(images) :
            HasEntry(images', id) /\ EntryOf(images', id) = EntryOf(images, id)
       /\ \A id \in Ids(images') \ Ids(images) :
            \E r \in Reqs :
                /\ rq[r].pc = "store" /\ rq[r].image_id = id
                /\ rq'[r].pc = "process_response" /\ rq'[r].req_succeeded]_vars

C14_Witness ==
    /\ Len(images) >= 2
    /\ rq[images[1].id].pc = "done"
    /\ \E r \in Reqs : rq[r].pc = "done" /\ rq[r].failedAt = "load"
    /\ images[1].modified # images[2].modified

Complete(e) ==
    /\ DOMAIN e = {"id", "modified", "size"}
    /\ e.id \in Reqs /\ e.modified # <<>>
    /\ e.size = rq[e.id].stream.size /\ e.size # <<0, 0>>
    /\ files[e.id].exists
    /\ files[e.id].content = Converted(rq[e.id].stream)

\* C15: list_images, at any point of any interleaving with saves in flight,
\* returns only fully built entries (id, modified, size), each of a save whose
\* converted bytes were in its file before the entry was in the catalog.
C15_ListedEntriesAreComplete ==
    /\ \A i \in 1..Len(list_images(images)) : Complete(list_images(images)[i])
    /\ \A r \in Reqs :
        (rq[r].method = "GET" /\ rq[r].ran) =>
            \A i \in 1..Len(rq[r].data[2]) : Complete(rq[r].data[2][i])

C15_Witness ==
    \E g, p \in Reqs :
        /\ rq[g].method = "GET" /\ rq[g].ran /\ Len(rq[g].data[2]) >= 1
        /\ rq[p].pc \in {"write", "store"}
        /\ ~HasEntry(images, rq[p].image_id)
        /\ rq[g].data[2] = list_images(images)

\* C16: while a save awaits its decode or convert on the worker pool it
\* holds no lock: every other request in flight can take its next step, the
\* save still awaiting, and so can complete before the codec step ends.
C16_CodecStepBlocksNobody ==
    \A r, x \in Reqs :
        (r # x /\ InCodec(rq[r]) /\ InFlight(rq[x])) =>
            ENABLED (Step(x) /\ rq'[r].pc = rq[r].pc)

C16_Witness ==
    \E r, x, y \in Reqs :
        /\ InCodec(rq[r]) /\ {x, y} \subseteq rq[r].guests /\ x # y
        /\ rq[x].pc = "done" /\ rq[x].method = "POST" /\ rq[x].req_succeeded
        /\ rq[y].pc = "done" /\ rq[y].method = "GET" /\ rq[y].op = "set"

\* C17: a successful request changes at most the cache entry under the key
\* of its own path; neither hook touches another key; the post-hook of a
\* successful DELETE, POST or PUT leaves its key without an entry, never with
\* a written value, and when the key was absent it raises no error and leaves
\* the cache as it was.
C17_OnlyOwnKeyChanges ==
    [][\A r \in Reqs :
          rq'[r].pc # rq[r].pc =>
              LET q == rq[r]
                  key == Key(q.path)
              IN /\ \A k \in Keys \ {key} : cache'[k] = cache[k]
                 /\ q.pc # "process_response" => cache' = cache
                 /\ (q.pc = "process_response" /\ q.req_succeeded
                        /\ q.method \in INVALIDATE_ON) =>
                       /\ cache'[key] = NoEntry
                       /\ ~cache[key].present =>
                              /\ cache' = cache
                              /\ rq'[r].exc = NoExc
                              /\ rq'[r].status = q.status]_vars

====
